---- MODULE Spec2Model ----
(***************************************************************************)
(* FS9721 multimeter packet decoder (docs/example_parser.c).               *)
(*                                                                         *)
(* Three specifications over one set of variables:                         *)
(*   Spec        parse_packet, stepped through its two loops, called       *)
(*               repeatedly by a caller that behaves like main;            *)
(*   SpecReverse reverse applied to every byte value, then to its result;  *)
(*   SpecLookup  lookup_digit applied to every byte value.                 *)
(*                                                                         *)
(* Bytes are naturals in 0..255; every uint8_t assignment truncates        *)
(* modulo 256.  C index i of a buffer is element i+1 of the sequence.      *)
(***************************************************************************)
EXTENDS Naturals, Sequences, FiniteSets

VARIABLES
    pc,      \* position of the caller / parse_packet: idle, loop1, loop2, done
    data,    \* the buffer handed to parse_packet (uint8_t *data)
    i,       \* the loop variable of the loop being run
    mem,     \* heap bytes at packet->data[0..13]; only offsets < size are allocated
    size,    \* bytes the calloc of this call allocated
    ret,     \* what parse_packet returned
    reads,   \* indexes of data[] read by this call
    writes,  \* offsets of packet->data[] written by the merge loop
    revs,    \* offsets of packet->data[] read and written by the reversal loop
    live,    \* heap blocks allocated and never freed
    held,    \* heap blocks the caller holds a pointer to
    calls,   \* completed calls of parse_packet
    rin,     \* SpecReverse: the byte given to reverse
    rout,    \* SpecReverse: the latest result of reverse
    rstage,  \* SpecReverse: how many times reverse was applied to rin
    seg,     \* SpecLookup: the byte given to lookup_digit
    rodata,  \* SpecLookup: where the build placed the string literals
    ch,      \* SpecLookup: the char lookup_digit returned
    lstage   \* SpecLookup: 0 before the call, 1 after

decVars == <<pc, data, i, mem, size, ret, reads, writes, revs, live, held, calls>>
revVars == <<rin, rout, rstage>>
lookVars == <<seg, rodata, ch, lstage>>
vars == <<decVars, revVars, lookVars>>

\* ------------------------------------------------------------ constants

PACKET_LENGTH == 14
DATA_LENGTH == 7
SizeofUint8 == 1
CallocCount == 1

\* Bounds of the model.
MaxCalls == 2
LenSlack == 1

Byte == 0..255

\* ------------------------------------------------------ C operators on bytes

RECURSIVE BitAnd(_, _)
BitAnd(x, y) ==
    IF x = 0 \/ y = 0 THEN 0
    ELSE (x % 2) * (y % 2) + 2 * BitAnd(x \div 2, y \div 2)

RECURSIVE BitOr(_, _)
BitOr(x, y) ==
    IF x = 0 THEN y
    ELSE IF y = 0 THEN x
    ELSE (IF (x % 2) + (y % 2) > 0 THEN 1 ELSE 0) + 2 * BitOr(x \div 2, y \div 2)

Shr(x, n) == x \div (2 ^ n)

\* a left shift stored back into a uint8_t
Shl8(x, n) == (x * (2 ^ n)) % 256

Bit(x, n) == (x \div (2 ^ n)) % 2

\* --------------------------------------------------------------- reverse

\* the for loop of reverse: in is already shifted right once on entry
RECURSIVE ReverseLoop(_, _, _)
ReverseLoop(in, r, cnt) ==
    IF in = 0 THEN [r |-> r, cnt |-> cnt]
    ELSE ReverseLoop(Shr(in, 1), BitOr(Shl8(r, 1), BitAnd(in, 1)), cnt - 1)

\* reverse without its final r <<= cnt
reverse_NoFinalShift(b) == ReverseLoop(Shr(b, 1), b, 7).r

\* reverse with cnt starting at 8 instead of 7
reverse_Cnt8(b) ==
    LET s == ReverseLoop(Shr(b, 1), b, 8) IN Shl8(s.r, s.cnt)

reverse(b) ==
    LET s == ReverseLoop(Shr(b, 1), b, 7) IN Shl8(s.r, s.cnt)

\* ---------------------------------------------------------- lookup_digit

\* The string literals of lookup_digit, in the order of its cases; the
\* last one is the default's "".
Literals == <<"0", "1", "2", "3", "4", "5", "6", "7", "8", "9", "L", "">>

\* the switch: which literal's return statement is taken
LiteralIndex(segments) ==
    CASE segments = 125 -> 1
      [] segments = 5   -> 2
      [] segments = 91  -> 3
      [] segments = 31  -> 4
      [] segments = 39  -> 5
      [] segments = 62  -> 6
      [] segments = 126 -> 7
      [] segments = 21  -> 8
      [] segments = 127 -> 9
      [] segments = 63  -> 10
      [] segments = 104 -> 11
      [] OTHER          -> 12

\* Where the build may place the first literal, and each literal after it
\* (one character and its terminator apart).
RodataBases == {8192, 8240, 16434}
LiteralAddr(base, k) == base + 2 * (k - 1)

\* `return "0";` in a function returning char: the pointer to the literal is
\* converted to char, which keeps the low byte of the address.
PointerToChar(addr) == addr % 256

lookup_digit(base, segments) ==
    PointerToChar(LiteralAddr(base, LiteralIndex(segments)))

\* ---------------------------------------------------------- parse_packet

NULL == [kind |-> "NULL"]
Reading == [kind |-> "reading"]
Pending == [kind |-> "pending"]

\* calloc(1, sizeof(uint8_t))
CallocSize == CallocCount * SizeofUint8

\* Heap bytes next to the allocation hold whatever was there before.
HeapFill == {0, 165}

\* What a read of data[k] beyond the end of the caller's buffer may yield.
BeyondBuffer(k) == {16 * ((k + 1) % 16), 0}

InputByte(buf, k) == IF k < Len(buf) THEN {buf[k + 1]} ELSE BeyondBuffer(k)

\* the sequence check with i in place of i+1
TagOk_ZeroBased(k, b) == k = Shr(b, 4)

\* the sequence check reading the low nibble
TagOk_LowNibble(k, b) == (k + 1) = BitAnd(b, 15)

\* (i+1) != (data[i] >> 4), negated
TagOk(k, b) == (k + 1) = Shr(b, 4)

\* mask = data[i] & 0x0F, shifted to the high nibble for an even i
Mask(k, b) ==
    LET mask == BitAnd(b, 15) IN
    IF k % 2 = 0 THEN Shl8(mask, 4) ELSE mask

\* the bound of the bit-order correction loop
ReverseBound == PACKET_LENGTH

\* the offsets of packet->data[] the two loops can touch
MemRange == 0..(PACKET_LENGTH - 1)

\* ------------------------------------------------------------- the inputs

\* low nibbles of the packet of main, and two other payloads
GoldenLow == <<7, 7, 13, 7, 13, 5, 11, 9, 7, 0, 8, 0, 4, 1>>
Payloads == {GoldenLow, [k \in 1..PACKET_LENGTH |-> 15], [k \in 1..PACKET_LENGTH |-> (3 * k) % 16]}
LowOf(p, k) == IF k < PACKET_LENGTH THEN p[k + 1] ELSE 0

Lens == (PACKET_LENGTH - LenSlack)..(PACKET_LENGTH + LenSlack)

\* no, one or two wrong sequence tags; a wrong tag is off by delta
BadSets(len) == {{}} \cup {{a, b} : a \in 0..(len - 1), b \in 0..(len - 1)}
Deltas == 1..15

MakePacket(len, p, bad, delta) ==
    [k1 \in 1..len |->
        LET k == k1 - 1
            tag == IF k \in bad THEN (k + 1 + delta) % 16 ELSE (k + 1) % 16
        IN 16 * tag + LowOf(p, k)]

Packets ==
    {MakePacket(len, p, bad, delta) :
        len \in Lens, p \in Payloads, bad \in BadSets(PACKET_LENGTH), delta \in Deltas}

\* ------------------------------------------------------------- the decoder

InitDecoder ==
    /\ pc = "idle"
    /\ data = <<>>
    /\ i = 0
    /\ mem = [k \in MemRange |-> 0]
    /\ size = 0
    /\ ret = Pending
    /\ reads = {}
    /\ writes = {}
    /\ revs = {}
    /\ live = 0
    /\ held = 0
    /\ calls = 0

InitReverseIdle == rin = 0 /\ rout = 0 /\ rstage = 0
InitLookupIdle == seg = 0 /\ rodata = 0 /\ ch = 0 /\ lstage = 0

Init == InitDecoder /\ InitReverseIdle /\ InitLookupIdle

\* main calls parse_packet(packet); parse_packet allocates its result
Call ==
    /\ pc = "idle"
    /\ calls < MaxCalls
    /\ \E d \in Packets, g \in HeapFill :
        /\ data' = d
        /\ mem' = [k \in MemRange |-> IF k < CallocSize THEN 0 ELSE g]
    /\ size' = CallocSize
    /\ live' = live + 1
    /\ i' = 0
    /\ ret' = Pending
    /\ reads' = {}
    /\ writes' = {}
    /\ revs' = {}
    /\ pc' = "loop1"
    /\ UNCHANGED <<held, calls, revVars, lookVars>>

\* first loop, the sequence check fails: return NULL
SequenceFail ==
    /\ pc = "loop1"
    /\ i < PACKET_LENGTH
    /\ \E b \in InputByte(data, i) : ~TagOk(i, b)
    /\ reads' = reads \cup {i}
    /\ ret' = NULL
    /\ pc' = "done"
    /\ UNCHANGED <<data, i, mem, size, writes, revs, live, held, calls, revVars, lookVars>>

\* first loop, the sequence check passes: packet->data[i/2] |= mask
Merge ==
    /\ pc = "loop1"
    /\ i < PACKET_LENGTH
    /\ \E b \in InputByte(data, i) :
        /\ TagOk(i, b)
        /\ mem' = [mem EXCEPT ![i \div 2] = BitOr(@, Mask(i, b))]
    /\ reads' = reads \cup {i}
    /\ writes' = writes \cup {i \div 2}
    /\ i' = i + 1
    /\ UNCHANGED <<pc, data, size, ret, revs, live, held, calls, revVars, lookVars>>

\* the first loop ends, the second starts at i = 0
MergeDone ==
    /\ pc = "loop1"
    /\ i >= PACKET_LENGTH
    /\ pc' = "loop2"
    /\ i' = 0
    /\ UNCHANGED <<data, mem, size, ret, reads, writes, revs, live, held, calls, revVars, lookVars>>

\* second loop: packet->data[i] = reverse(packet->data[i])
ReverseData ==
    /\ pc = "loop2"
    /\ i < ReverseBound
    /\ mem' = [mem EXCEPT ![i] = reverse(@)]
    /\ revs' = revs \cup {i}
    /\ i' = i + 1
    /\ UNCHANGED <<pc, data, size, ret, reads, writes, live, held, calls, revVars, lookVars>>

\* return packet
Return ==
    /\ pc = "loop2"
    /\ i >= ReverseBound
    /\ ret' = Reading
    /\ pc' = "done"
    /\ UNCHANGED <<data, i, mem, size, reads, writes, revs, live, held, calls, revVars, lookVars>>

\* main receives the result: it keeps the pointer to a reading, and has
\* nothing to keep (or free) when the result is NULL; the locals of the
\* call are gone
Resume ==
    /\ pc = "done"
    /\ held' = IF ret = Reading THEN held + 1 ELSE held
    /\ calls' = calls + 1
    /\ pc' = "idle"
    /\ data' = <<>>
    /\ i' = 0
    /\ mem' = [k \in MemRange |-> 0]
    /\ size' = 0
    /\ ret' = Pending
    /\ reads' = {}
    /\ writes' = {}
    /\ revs' = {}
    /\ UNCHANGED <<live, revVars, lookVars>>

Next ==
    \/ Call
    \/ SequenceFail
    \/ Merge
    \/ MergeDone
    \/ ReverseData
    \/ Return
    \/ Resume

Spec == Init /\ [][Next]_vars

\* -------------------------------------------------- reverse on its own

InitReverse ==
    /\ InitDecoder
    /\ InitLookupIdle
    /\ rin \in Byte
    /\ rout = 0
    /\ rstage = 0

\* reverse(rin), then reverse of that result
ApplyReverse ==
    /\ rstage < 2
    /\ rout' = reverse(IF rstage = 0 THEN rin ELSE rout)
    /\ rstage' = rstage + 1
    /\ UNCHANGED <<rin, decVars, lookVars>>

NextReverse == ApplyReverse

SpecReverse == InitReverse /\ [][NextReverse]_vars

\* --------------------------------------------- lookup_digit on its own

InitLookup ==
    /\ InitDecoder
    /\ InitReverseIdle
    /\ seg \in Byte
    /\ rodata \in RodataBases
    /\ ch = 0
    /\ lstage = 0

ApplyLookup ==
    /\ lstage = 0
    /\ ch' = lookup_digit(rodata, seg)
    /\ lstage' = 1
    /\ UNCHANGED <<seg, rodata, decVars, revVars>>

NextLookup == ApplyLookup

SpecLookup == InitLookup /\ [][NextLookup]_vars

\* ------------------------------------------------------------ properties

HighNibble(b) == b \div 16
LowNibble(b) == b % 16

\* the indexes of a 14-byte buffer whose sequence tag is not index + 1
Mismatches(buf) ==
    {k \in 0..(PACKET_LENGTH - 1) : HighNibble(buf[k + 1]) # k + 1}

FirstMismatch(buf) ==
    CHOOSE k \in Mismatches(buf) : \A m \in Mismatches(buf) : k <= m

FullLength == Len(data) = PACKET_LENGTH

\* the error results of the specification's decode
SequenceMismatch(ix) == [kind |-> "SequenceMismatch", index |-> ix]
InvalidLength == [kind |-> "InvalidLength"]

\* C1: for a 14-byte input parse_packet returns a reading exactly when every
\* high nibble is its index + 1; otherwise it returns NULL at the first
\* mismatching index, reads and merges no byte after that index, and never
\* reaches the bit-order correction.
C1_SequenceCheck ==
    FullLength =>
        /\ pc = "done" => (ret = Reading <=> Mismatches(data) = {})
        /\ pc = "done" /\ Mismatches(data) # {} => ret = NULL
        /\ Mismatches(data) # {} =>
            /\ reads \subseteq 0..FirstMismatch(data)
            /\ \A w \in writes : 2 * w < FirstMismatch(data)
            /\ revs = {}
            /\ pc # "loop2"

\* C1 witness: a 14-byte packet whose first wrong tag is at index 5 was
\* rejected after indexes 0..5 were read.
C1_Witness ==
    /\ pc = "done"
    /\ FullLength
    /\ Mismatches(data) # {}
    /\ FirstMismatch(data) = 5
    /\ ret = NULL
    /\ reads = 0..5
    /\ writes = {0, 1, 2}

\* C2: for a 14-byte input with valid tags, byte k of the returned reading is
\* reverse((low nibble of raw[2k] << 4) | low nibble of raw[2k+1]), k = 0..6.
C2_MergedReversed ==
    pc = "done" /\ FullLength /\ ret = Reading =>
        \A k \in 0..(DATA_LENGTH - 1) :
            mem[k] = reverse(16 * LowNibble(data[2 * k + 1]) + LowNibble(data[2 * k + 2]))

\* C3: a buffer of another length than 14 fails with InvalidLength before any
\* sequence check, and no index at or beyond the buffer's length is read.
C3_InvalidLength ==
    /\ pc = "done" /\ ~FullLength => ret = InvalidLength
    /\ pc # "idle" /\ ~FullLength => reads = {}
    /\ pc # "idle" => \A r \in reads : r < Len(data)

\* C4 as claimed: a sequence failure is reported as SequenceMismatch carrying
\* the smallest mismatching index.
C4_CarriesIndex ==
    pc = "done" /\ FullLength /\ Mismatches(data) # {} =>
        ret = SequenceMismatch(FirstMismatch(data))

\* C4 as amended: a sequence failure on a 14-byte input is reported as NULL,
\* which carries no index; the loop stopped with i at the smallest
\* mismatching index.
C4_StopsAtFirstMismatch ==
    pc = "done" /\ FullLength /\ Mismatches(data) # {} =>
        /\ ret = NULL
        /\ i = FirstMismatch(data)

\* C4 witness: a packet with exactly one wrong high nibble, at index 9, was
\* rejected with i = 9.
C4_Witness ==
    /\ pc = "done"
    /\ FullLength
    /\ Mismatches(data) = {9}
    /\ ret = NULL
    /\ i = 9

\* C5: reverse is total on 0..255 and bit n of reverse(b) is bit 7-n of b;
\* in particular 0x00 -> 0x00, 0xFF -> 0xFF, 0x80 -> 0x01, 0x01 -> 0x80.
C5_ReverseBits ==
    rstage = 1 =>
        /\ rout \in Byte
        /\ \A n \in 0..7 : Bit(rout, n) = Bit(rin, 7 - n)
        /\ rin = 0 => rout = 0
        /\ rin = 255 => rout = 255
        /\ rin = 128 => rout = 1
        /\ rin = 1 => rout = 128

\* C5 witness: reverse(0x80) was computed to be 0x01.
C5_Witness == rstage = 1 /\ rin = 128 /\ rout = 1

\* C6: reverse(reverse(b)) = b for every byte b.
C6_ReverseInvolution == rstage = 2 => rout = rin

\* C6 witness: reverse was applied twice to 0x1D, giving 0x1D again.
C6_Witness == rstage = 2 /\ rin = 29 /\ rout = 29

\* the characters the specification's table gives, 0 standing for "no mapping"
ClaimedChar(segments) ==
    CASE segments = 125 -> 48
      [] segments = 5   -> 49
      [] segments = 91  -> 50
      [] segments = 31  -> 51
      [] segments = 39  -> 52
      [] segments = 62  -> 53
      [] segments = 126 -> 54
      [] segments = 21  -> 55
      [] segments = 127 -> 56
      [] segments = 63  -> 57
      [] segments = 104 -> 76
      [] OTHER          -> 0

\* C7: lookup_digit returns the character '0'..'9' or 'L' of the eleven
\* segment patterns, and "no mapping" for every other byte.
C7_LookupDigit == lstage = 1 => ch = ClaimedChar(seg)

\* C8: decode leaves nothing behind: between calls every live heap block is
\* one the caller holds as a returned reading.
C8_NoRetainedState == pc = "idle" => live = held

\* C9: the bit-order correction touches only offsets 0..6 of packet->data.
C9_ReverseInBounds == \A k \in revs : k < DATA_LENGTH

\* C10: the allocation is at least 7 bytes, so every merge write lands
\* inside it.
C10_AllocCoversData ==
    pc # "idle" =>
        /\ size >= DATA_LENGTH
        /\ \A w \in writes : w < size

====
